---- MODULE Spec2Model ----
(***************************************************************************)
(* State-machine model of the client components of pcce-techyothon:        *)
(*   ProjectSidebar (src/unnamed/part_000),                                *)
(*   InviteNotifications and ThinkBuddyAssistant                           *)
(*     (src/frontend/src/components/InviteNotifications.jsx),              *)
(*   AddProjectModal (src/frontend/src/components/AddProjectModal.jsx).    *)
(*                                                                         *)
(* Every async handler is split at its awaits: the synchronous prefix is   *)
(* one action, the continuation after `await getIdToken()` another, the    *)
(* continuation after `await fetch(...)` (with the body read) a third.     *)
(* Values a handler reads from its closure (props, state of the render     *)
(* that created it) are captured in the in-flight record when the handler  *)
(* is called.                                                              *)
(***************************************************************************)
EXTENDS Integers, Sequences, FiniteSets, Bags, TLC

Null == "null"
Undefined == "undefined"

\* ---------------------------------------------------------------- bounds
MaxFetches == 2
MaxDeletes == 1
MaxInvFetches == 1
MaxInvOps == 1

\* ------------------------------------------------------- ghost variables
\* last : the handler step that produced the current state
\* fx   : the outward calls that step made, in program order
VARIABLES last, fx

\* inp : what the step received from its collaborator (response body part)
NoStep == [op |-> "init", out |-> Null, id |-> Null, act |-> Null, status |-> 0,
           inp |-> Null]
Step(op, out, id, act, status) ==
    [op |-> op, out |-> out, id |-> id, act |-> act, status |-> status, inp |-> Null]
StepIn(op, out, id, act, status, inp) ==
    [op |-> op, out |-> out, id |-> id, act |-> act, status |-> status, inp |-> inp]
Fx(e, arg) == [e |-> e, arg |-> arg]
HasFx(e) == \E i \in DOMAIN fx : fx[i].e = e
CountFx(e) == Cardinality({i \in DOMAIN fx : fx[i].e = e})

\* ======================================================== ProjectSidebar
VARIABLES user, projects, loading, error, offlineMode, showNotifications,
          selectedProject, fetches, deletes

\* ==================================================== InviteNotifications
VARIABLES invites, invLoading, invFetches, invOps

sbVars == <<user, projects, loading, error, offlineMode, showNotifications,
            selectedProject, fetches, deletes>>
invVars == <<invites, invLoading, invFetches, invOps>>

Users == {Null, "u1"}
Statuses == {200, 401, 403, 404, 500}
ResponseOk(status) == status >= 200 /\ status <= 299

\* user?.uid
Uid(u) == IF u = Null THEN Undefined ELSE u

Member(uid, role) == [user_id |-> uid, role |-> role]
Team(id, admin, members) == [teamId |-> id, admin_id |-> admin, members |-> members]

\* lists the backend may return for GET /teams/
TeamA == Team("t1", "u1", <<Member("u1", "admin")>>)
TeamB == Team("t2", "u2", <<Member("u2", "admin"), Member("u1", "member")>>)
TeamLists == {<<>>, <<TeamA, TeamB>>}

getMockProjects_one(u) ==
    <<Team("mock-1", Undefined,
           <<Member(IF u = Null THEN "mock-user" ELSE u, "admin")>>)>>

getMockProjects(u) ==
    LET me == IF u = Null THEN "mock-user" ELSE u
    IN <<Team("mock-1", Undefined, <<Member(me, "admin")>>),
         Team("mock-2", Undefined,
              <<Member(me, "admin"), Member("mock-dev-1", "member")>>)>>

\* the message of the Error thrown for a non-ok status (lines 86-96);
\* "" when the branch returns instead of throwing
StatusError(status) ==
    CASE status = 401 -> "Authentication failed. Please login again."
      [] status = 500 -> "Server error. Please try again later."
      [] status = 404 -> ""
      [] status = 403 -> "Failed to fetch projects: 403"
      [] OTHER -> "Failed to fetch projects"

\* the branch of lines 90-93: setProjects([]); return
IsEmptyResult(status) == status = 404

TeamIds(ps) == {ps[i].teamId : i \in DOMAIN ps}

\* InviteNotifications is rendered only below the `if (loading)` return of
\* the sidebar (lines 207-213, 424-428): it is unmounted while the sidebar
\* loads, and its in-flight continuations then set state on a dead instance.
RECURSIVE BagOfSeq(_)
BagOfSeq(s) == IF s = <<>> THEN EmptyBag
               ELSE SetToBag({Head(s)}) (+) BagOfSeq(Tail(s))

RECURSIVE BagToSeq(_)
BagToSeq(b) == IF BagToSet(b) = {} THEN <<>>
               ELSE LET x == CHOOSE y \in BagToSet(b) : TRUE
                    IN <<x>> \o BagToSeq(b (-) SetToBag({x}))

RECURSIVE MapSeq(_, _)
MapSeq(s, live) == IF s = <<>> THEN <<>>
                   ELSE <<[Head(s) EXCEPT !.live = live]>> \o MapSeq(Tail(s), live)

\* every in-flight continuation of the instance becomes stale
Detach(b) == BagOfSeq(MapSeq(BagToSeq(b), FALSE))

One(x) == SetToBag({x})

ErrMsg(m, dflt) == IF m = "" THEN dflt ELSE m

\* messages of exceptions thrown by getIdToken / fetch / body readers
ThrownMsgs == {"", "Failed to fetch"}

InviteLists == {<<>>, <<"i1", "i2">>}
\* after: the invite whose handled POST called this fetchInvites (Null when
\* the effect called it)
InvRefetchRec(pc, live, after) == [pc |-> pc, live |-> live, after |-> after]
InvFetchRec(pc, live) == InvRefetchRec(pc, live, Null)
InvOpRec(id, act, pc, live) == [id |-> id, act |-> act, pc |-> pc, live |-> live]
DelRec(pid, sel, pc) == [pid |-> pid, sel |-> sel, pc |-> pc]

InitSidebar ==
    /\ user \in Users
    /\ projects = <<>>
    /\ loading = TRUE
    /\ error = Null
    /\ offlineMode = FALSE
    /\ showNotifications = FALSE
    /\ selectedProject = Null
    /\ fetches = One("token")        \* the mount effect, lines 55-57
    /\ deletes = EmptyBag
    /\ invites = <<>>
    /\ invLoading = TRUE
    /\ invFetches = EmptyBag
    /\ invOps = EmptyBag

\* ---- fetchProjects, lines 59-119 ------------------------------------

fetchProjects_sync_skipped ==
    UNCHANGED <<user, projects, loading, error, offlineMode, showNotifications,
                fetches>>

\* lines 60-65: the synchronous prefix up to `await getIdToken()`
fetchProjects_sync ==
    /\ BagCardinality(fetches) < MaxFetches
    /\ loading' = TRUE
    /\ error' = Null
    /\ offlineMode' = FALSE
    /\ fetches' = fetches (+) One("token")
    /\ UNCHANGED <<user, projects, showNotifications>>

\* InviteNotifications leaves the tree when the sidebar shows its loader
InvUnmount ==
    /\ invites' = <<>>
    /\ invLoading' = TRUE
    /\ invFetches' = Detach(invFetches)
    /\ invOps' = Detach(invOps)

\* `finally { setLoading(false) }`: when the loader goes away the child is
\* mounted afresh and its effect (lines 13-17) runs
InvRemount ==
    IF loading
    THEN /\ invites' = <<>>
         /\ invLoading' = TRUE
         /\ IF showNotifications
            THEN /\ BagCardinality(invFetches) < MaxInvFetches
                 /\ invFetches' = invFetches (+) One(InvFetchRec("token", TRUE))
            ELSE invFetches' = invFetches
         /\ UNCHANGED invOps
    ELSE UNCHANGED invVars

\* the catch block, lines 105-115, followed by finally
fetchProjects_catch(msg) ==
    /\ error' = ErrMsg(msg, "Failed to load projects")
    /\ offlineMode' = TRUE
    /\ projects' = getMockProjects(user)
    /\ fx' = <<Fx("onProjectsLoaded", getMockProjects(user))>>
    /\ loading' = FALSE
    /\ InvRemount

\* the useEffect on refreshTrigger (parent bumps the trigger)
RefreshTrigger ==
    /\ fetchProjects_sync
    /\ InvUnmount
    /\ last' = Step("refreshTrigger", Null, Null, Null, 0)
    /\ fx' = <<Fx("fetchProjects", Null)>>
    /\ UNCHANGED <<selectedProject, deletes>>

\* the "Try connecting again" / "Try again" buttons, lines 292-310
RetryClick ==
    /\ ~loading
    /\ offlineMode \/ error # Null
    /\ fetchProjects_sync
    /\ InvUnmount
    /\ last' = Step("retry", Null, Null, Null, 0)
    /\ fx' = <<Fx("fetchProjects", Null)>>
    /\ UNCHANGED <<selectedProject, deletes>>

\* continuation after `await getIdToken()`, lines 65-79
FetchToken ==
    /\ BagIn("token", fetches)
    /\ \/ /\ fetches' = (fetches (-) One("token")) (+) One("fetch")
          /\ fx' = <<Fx("GET /teams/", Null)>>
          /\ last' = Step("fetchProjects", "issued", Null, Null, 0)
          /\ UNCHANGED <<projects, loading, error, offlineMode>>
          /\ UNCHANGED invVars
       \/ /\ fetches' = fetches (-) One("token")
          /\ fetchProjects_catch("No authentication token available")
          /\ last' = Step("fetchProjects", "noToken", Null, Null, 0)
       \/ \E m \in ThrownMsgs :
          /\ fetches' = fetches (-) One("token")
          /\ fetchProjects_catch(m)
          /\ last' = Step("fetchProjects", "exception", Null, Null, 0)
    /\ UNCHANGED <<user, showNotifications, selectedProject, deletes>>

\* continuation after `await fetch(...)`, lines 81-118
\* what response.json() resolves to: an array of teams, or some other JSON
\* value (here an object wrapping the teams)
Json(isArray, value) == [isArray |-> isArray, value |-> value]
JsonBodies ==
    {Json(TRUE, l) : l \in TeamLists} \cup {Json(FALSE, <<TeamA, TeamB>>)}

projectsData_raw(data) == data.value

\* line 100: Array.isArray(data) ? data : []
projectsData(data) == IF data.isArray THEN data.value ELSE <<>>

FetchDone ==
    /\ BagIn("fetch", fetches)
    /\ fetches' = fetches (-) One("fetch")
    /\ \/ \E m \in ThrownMsgs :           \* fetch rejects
          /\ fetchProjects_catch(m)
          /\ last' = Step("fetchProjects", "exception", Null, Null, 0)
       \/ \E status \in Statuses, textOk \in BOOLEAN :
          /\ ~ResponseOk(status)
          /\ IF ~textOk                     \* response.text() rejects
             THEN /\ fetchProjects_catch("Failed to fetch")
                  /\ last' = Step("fetchProjects", "exception", Null, Null, status)
             ELSE IF IsEmptyResult(status)
             THEN /\ projects' = <<>>
                  /\ loading' = FALSE
                  /\ InvRemount
                  /\ fx' = <<>>
                  /\ last' = Step("fetchProjects", "status", Null, Null, status)
                  /\ UNCHANGED <<error, offlineMode>>
             ELSE /\ fetchProjects_catch(StatusError(status))
                  /\ last' = Step("fetchProjects", "status", Null, Null, status)
       \/ \E status \in Statuses, parsed \in BOOLEAN :
          /\ ResponseOk(status)
          /\ IF ~parsed                      \* response.json() rejects
             THEN /\ fetchProjects_catch("Failed to fetch")
                  /\ last' = Step("fetchProjects", "exception", Null, Null, status)
             ELSE \E data \in JsonBodies :
                  /\ projects' = projectsData(data)
                  /\ fx' = <<Fx("onProjectsLoaded", projectsData(data))>>
                  /\ loading' = FALSE
                  /\ InvRemount
                  /\ last' = StepIn("fetchProjects", "ok", Null, Null, status, data)
                  /\ UNCHANGED <<error, offlineMode>>
    /\ UNCHANGED <<user, showNotifications, selectedProject, deletes>>

\* ---- selection and delete, lines 163-194 -----------------------------

\* handleProjectClick, lines 163-165; the parent stores what it is given
SelectProject(pid) ==
    /\ ~loading
    /\ pid \in TeamIds(projects)
    /\ selectedProject' = pid
    /\ fx' = <<Fx("onProjectSelect", pid)>>
    /\ last' = Step("select", Null, pid, Null, 0)
    /\ UNCHANGED <<user, projects, loading, error, offlineMode,
                   showNotifications, fetches, deletes>>
    /\ UNCHANGED invVars

\* line 356: the row's action buttons are rendered
ActionsShown(project, u) == project.admin_id = Uid(u)

DeleteClick_noConfirm(pid) ==
    /\ ~loading
    /\ \E i \in DOMAIN projects :
          projects[i].teamId = pid /\ ActionsShown(projects[i], user)
    /\ BagCardinality(deletes) < MaxDeletes
    /\ deletes' = deletes (+) One(DelRec(pid, selectedProject, "token"))
    /\ fx' = <<>>
    /\ last' = Step("deleteClick", Null, pid, Null, 0)
    /\ UNCHANGED <<user, projects, loading, error, offlineMode,
                   showNotifications, selectedProject, fetches>>
    /\ UNCHANGED invVars

\* handleDeleteProject up to showConfirm, lines 167-169; the continuation
\* closes over the selectedProject prop of the render that was clicked
DeleteClick(pid) ==
    /\ ~loading
    /\ \E i \in DOMAIN projects :
          projects[i].teamId = pid /\ ActionsShown(projects[i], user)
    /\ BagCardinality(deletes) < MaxDeletes
    /\ deletes' = deletes (+) One(DelRec(pid, selectedProject, "confirm"))
    /\ fx' = <<Fx("showConfirm", pid)>>
    /\ last' = Step("deleteClick", Null, pid, Null, 0)
    /\ UNCHANGED <<user, projects, loading, error, offlineMode,
                   showNotifications, selectedProject, fetches>>
    /\ UNCHANGED invVars

\* the dialog is dismissed: the continuation is never invoked
DeleteDismiss(d) ==
    /\ BagIn(d, deletes) /\ d.pc = "confirm"
    /\ deletes' = deletes (-) One(d)
    /\ fx' = <<>>
    /\ last' = Step("deleteDismiss", Null, d.pid, Null, 0)
    /\ UNCHANGED <<user, projects, loading, error, offlineMode,
                   showNotifications, selectedProject, fetches>>
    /\ UNCHANGED invVars

\* the user confirms: lines 170-171 run up to `await getIdToken()`
DeleteConfirm(d) ==
    /\ BagIn(d, deletes) /\ d.pc = "confirm"
    /\ deletes' = (deletes (-) One(d)) (+) One([d EXCEPT !.pc = "token"])
    /\ fx' = <<>>
    /\ last' = Step("deleteConfirm", Null, d.pid, Null, 0)
    /\ UNCHANGED <<user, projects, loading, error, offlineMode,
                   showNotifications, selectedProject, fetches>>
    /\ UNCHANGED invVars

\* lines 171-180: token obtained (or not), DELETE issued
DeleteToken(d) ==
    /\ BagIn(d, deletes) /\ d.pc = "token"
    /\ \/ /\ deletes' = (deletes (-) One(d)) (+) One([d EXCEPT !.pc = "fetch"])
          /\ fx' = <<Fx("DELETE /teams/", d.pid)>>
          /\ last' = Step("delete", "issued", d.pid, Null, 0)
       \/ /\ deletes' = deletes (-) One(d)
          /\ fx' = <<Fx("showError", "Failed to delete project")>>
          /\ last' = Step("delete", "exception", d.pid, Null, 0)
    /\ UNCHANGED <<user, projects, loading, error, offlineMode,
                   showNotifications, selectedProject, fetches>>
    /\ UNCHANGED invVars

\* line 185: selectedProject?.teamId === projectId, on the captured prop
ClearsSelection(sel, pid) == sel = pid

\* lines 182-192: response.ok, or !response.ok / fetch rejected
DeleteDone(d) ==
    /\ BagIn(d, deletes) /\ d.pc = "fetch"
    /\ deletes' = deletes (-) One(d)
    /\ \/ /\ selectedProject' =
                IF ClearsSelection(d.sel, d.pid) THEN Null ELSE selectedProject
          /\ fx' = <<Fx("showSuccess", "Project deleted successfully")>>
                   \o (IF ClearsSelection(d.sel, d.pid)
                       THEN <<Fx("onProjectSelect", Null)>> ELSE <<>>)
                   \o <<Fx("fetchProjects", Null)>>
          /\ fetchProjects_sync
          /\ InvUnmount
          /\ last' = Step("delete", "ok", d.pid, Null, 0)
       \/ /\ fx' = <<Fx("showError", "Failed to delete project")>>
          /\ last' = Step("delete", "failed", d.pid, Null, 0)
          /\ UNCHANGED <<user, projects, loading, error, offlineMode,
                         showNotifications, selectedProject, fetches>>
          /\ UNCHANGED invVars

\* ---- InviteNotifications, lines 7-70 ---------------------------------

\* fetchInvites up to `await getIdToken()`, lines 19-22, called on a
\* mounted (live) or on an unmounted instance
fetchInvites_call(live, after) ==
    /\ BagCardinality(invFetches) < MaxInvFetches
    /\ invLoading' = IF live THEN TRUE ELSE invLoading
    /\ invFetches' = invFetches (+) One(InvRefetchRec("token", live, after))

fetchInvites_sync(live) == fetchInvites_call(live, Null)

\* the bell button, line 223, and the effect of lines 13-17
OpenNotifications ==
    /\ ~loading /\ ~showNotifications
    /\ showNotifications' = TRUE
    /\ fetchInvites_sync(TRUE)
    /\ fx' = <<Fx("fetchInvites", Null)>>
    /\ last' = Step("openNotifications", Null, Null, Null, 0)
    /\ UNCHANGED <<user, projects, loading, error, offlineMode,
                   selectedProject, fetches, deletes, invites, invOps>>

\* onClose, line 79 / 426; the effect runs and does nothing
CloseNotifications ==
    /\ ~loading /\ showNotifications
    /\ showNotifications' = FALSE
    /\ fx' = <<>>
    /\ last' = Step("closeNotifications", Null, Null, Null, 0)
    /\ UNCHANGED <<user, projects, loading, error, offlineMode,
                   selectedProject, fetches, deletes>>
    /\ UNCHANGED invVars

\* lines 22-32
InvFetchToken(f) ==
    /\ BagIn(f, invFetches) /\ f.pc = "token"
    /\ \/ /\ invFetches' = (invFetches (-) One(f)) (+) One([f EXCEPT !.pc = "fetch"])
          /\ fx' = <<Fx("GET /teams/invites/my", Null)>>
          /\ last' = Step("fetchInvites", "issued", f.after, Null, 0)
          /\ UNCHANGED <<invites, invLoading>>
       \/ \E out \in {"noToken", "exception"} :   \* line 23 / catch
          /\ invFetches' = invFetches (-) One(f)
          /\ invLoading' = IF f.live THEN FALSE ELSE invLoading
          /\ fx' = <<>>
          /\ last' = Step("fetchInvites", out, f.after, Null, 0)
          /\ UNCHANGED invites
    /\ UNCHANGED sbVars
    /\ UNCHANGED invOps

\* lines 34-42
InvFetchDone(f) ==
    /\ BagIn(f, invFetches) /\ f.pc = "fetch"
    /\ invFetches' = invFetches (-) One(f)
    /\ invLoading' = IF f.live THEN FALSE ELSE invLoading
    /\ fx' = <<>>
    /\ \/ \E data \in InviteLists :            \* response.ok
          /\ invites' = IF f.live THEN data ELSE invites
          /\ last' = StepIn("fetchInvites", "ok", f.after, Null, 0, data)
       \/ /\ UNCHANGED invites                  \* !response.ok, or a rejection
          /\ last' = Step("fetchInvites", "failed", f.after, Null, 0)
    /\ UNCHANGED sbVars
    /\ UNCHANGED invOps

\* the Accept / Decline buttons, lines 110-121
HandleInvite(id, act) ==
    /\ ~loading /\ showNotifications /\ ~invLoading
    /\ \E i \in DOMAIN invites : invites[i] = id
    /\ BagCardinality(invOps) < MaxInvOps
    /\ invOps' = invOps (+) One(InvOpRec(id, act, "token", TRUE))
    /\ fx' = <<>>
    /\ last' = Step("handleInviteCall", Null, id, act, 0)
    /\ UNCHANGED sbVars
    /\ UNCHANGED <<invites, invLoading, invFetches>>

handleInvite_catch_reset(o) ==
    /\ invOps' = invOps (-) One(o)
    /\ fx' = <<Fx("showError", o.act)>>
    /\ invites' = <<>>
    /\ UNCHANGED sbVars
    /\ UNCHANGED <<invLoading, invFetches>>

\* the catch block, lines 66-69
handleInvite_catch(o) ==
    /\ invOps' = invOps (-) One(o)
    /\ fx' = <<Fx("showError", o.act)>>
    /\ UNCHANGED sbVars
    /\ UNCHANGED <<invites, invLoading, invFetches>>

\* lines 47-56: no token check, the POST goes out even with a null token
InvOpToken(o) ==
    /\ BagIn(o, invOps) /\ o.pc = "token"
    /\ \/ /\ invOps' = (invOps (-) One(o)) (+) One([o EXCEPT !.pc = "fetch"])
          /\ fx' = <<Fx("POST /teams/invites/", o.id)>>
          /\ last' = Step("handleInvite", "issued", o.id, o.act, 0)
          /\ UNCHANGED sbVars
          /\ UNCHANGED <<invites, invLoading, invFetches>>
       \/ /\ handleInvite_catch(o)              \* getIdToken rejects
          /\ last' = Step("handleInvite", "exception", o.id, o.act, 0)

NotifiesParent_always(act) == TRUE

\* line 63: action === "accept" && onInviteHandled
NotifiesParent(act) == act = "accept"

\* lines 58-69
InvOpDone(o) ==
    /\ BagIn(o, invOps) /\ o.pc = "fetch"
    /\ \/ /\ last' = Step("handleInvite", "ok", o.id, o.act, 0)   \* response.ok
          /\ IF NotifiesParent(o.act)
             THEN \* fetchInvites(); onInviteHandled() = fetchProjects()
                  /\ BagCardinality(invFetches) < MaxInvFetches
                  /\ fetchProjects_sync
                  /\ invites' = <<>>
                  /\ invLoading' = TRUE
                  /\ invFetches' =
                        Detach(invFetches (+) One(InvRefetchRec("token", o.live, o.id)))
                  /\ invOps' = Detach(invOps (-) One(o))
                  /\ fx' = <<Fx("showSuccess", o.act), Fx("fetchInvites", Null),
                             Fx("onInviteHandled", Null)>>
                  /\ UNCHANGED <<selectedProject, deletes>>
             ELSE /\ fetchInvites_call(o.live, o.id)
                  /\ invOps' = invOps (-) One(o)
                  /\ fx' = <<Fx("showSuccess", o.act), Fx("fetchInvites", Null)>>
                  /\ UNCHANGED sbVars
                  /\ UNCHANGED invites
       \/ /\ handleInvite_catch(o)              \* !response.ok, or a rejection
          /\ last' = Step("handleInvite", "failed", o.id, o.act, 0)

\* the project list with selection and delete
NextSidebar ==
    \/ RefreshTrigger
    \/ RetryClick
    \/ FetchToken
    \/ FetchDone
    \/ \E pid \in {"t1", "t2", "mock-1", "mock-2"} : SelectProject(pid)
    \/ \E pid \in {"t1", "t2", "mock-1", "mock-2"} : DeleteClick(pid)
    \/ \E d \in BagToSet(deletes) : DeleteDismiss(d)
    \/ \E d \in BagToSet(deletes) : DeleteConfirm(d)
    \/ \E d \in BagToSet(deletes) : DeleteToken(d)
    \/ \E d \in BagToSet(deletes) : DeleteDone(d)

\* the project list with its InviteNotifications child
NextInvites ==
    \/ RefreshTrigger
    \/ RetryClick
    \/ FetchToken
    \/ FetchDone
    \/ OpenNotifications
    \/ CloseNotifications
    \/ \E f \in BagToSet(invFetches) : InvFetchToken(f)
    \/ \E f \in BagToSet(invFetches) : InvFetchDone(f)
    \/ \E id \in {"i1", "i2"}, act \in {"accept", "reject"} : HandleInvite(id, act)
    \/ \E o \in BagToSet(invOps) : InvOpToken(o)
    \/ \E o \in BagToSet(invOps) : InvOpDone(o)

\* ==================================================== ThinkBuddyAssistant
VARIABLES asSelected, messages, inputMessage, isTyping, asLoading, asError,
          chats, loads

asVars == <<asSelected, messages, inputMessage, isTyping, asLoading, asError,
            chats, loads>>

MaxMsgs == 3
MaxChats == 2
MaxLoads == 2

\* the projects prop of the assistant (teamIds)
AsProjects == {"p1"}

\* String.prototype.trim on a sequence of characters
RECURSIVE TrimLeft(_)
TrimLeft(s) == IF s # <<>> /\ Head(s) = " " THEN TrimLeft(Tail(s)) ELSE s

RECURSIVE TrimRight(_)
TrimRight(s) == IF s # <<>> /\ s[Len(s)] = " "
                THEN TrimRight(SubSeq(s, 1, Len(s) - 1)) ELSE s

Trim(s) == TrimRight(TrimLeft(s))

TypedInputs == {<<>>, <<" ">>, <<" ", "a">>}
PREDEFINED_PROMPTS == {<<"Help me debug an issue">>}

NoSources == [present |-> FALSE, list |-> <<>>]
SomeSources(l) == [present |-> TRUE, list |-> l]

\* a chat turn; ctx records the project id the producing handler closed over
Msg(role, content, isError, sources, ctx) ==
    [role |-> role, content |-> content, isError |-> isError,
     sources |-> sources, ctx |-> ctx]

\* data.history of GET /api/assistant/history
HistLists == {<<>>, <<[role |-> "user", content |-> <<"h">>]>>}

RECURSIVE formattedMessages(_, _)
formattedMessages(h, ctx) ==
    IF h = <<>> THEN <<>>
    ELSE <<Msg(Head(h).role, Head(h).content, FALSE, NoSources, ctx)>>
         \o formattedMessages(Tail(h), ctx)

ChatRec(pc, ctx, msg) == [pc |-> pc, ctx |-> ctx, msg |-> msg]
LoadRec(pc, ctx) == [pc |-> pc, ctx |-> ctx]

InitAssistant ==
    /\ asSelected = Null
    /\ messages = <<>>
    /\ inputMessage = <<>>
    /\ isTyping = FALSE
    /\ asLoading = TRUE
    /\ asError = Null
    /\ chats = EmptyBag
    /\ loads = One(LoadRec("token", Null))    \* the mount effect, lines 213-215

\* the textarea, lines 582-592
TypeInput(text) ==
    /\ ~isTyping
    /\ text # inputMessage
    /\ inputMessage' = text
    /\ fx' = <<>>
    /\ last' = Step("type", Null, Null, Null, 0)
    /\ UNCHANGED <<asSelected, messages, isTyping, asLoading, asError, chats, loads>>

\* the project select, lines 424-429, and the effect of lines 213-215
\* running loadChatHistory up to `await getIdToken()`
SwitchProject(p) ==
    /\ p # asSelected
    /\ BagCardinality(loads) < MaxLoads
    /\ asSelected' = p
    /\ asLoading' = TRUE
    /\ asError' = Null
    /\ loads' = loads (+) One(LoadRec("token", p))
    /\ fx' = <<Fx("loadChatHistory", p)>>
    /\ last' = Step("switch", Null, p, Null, 0)
    /\ UNCHANGED <<messages, inputMessage, isTyping, chats>>

\* the catch block of loadChatHistory, lines 272-283
loadChatHistory_catch(l) ==
    /\ asError' = "Failed to load chat history"
    /\ messages' = <<Msg("assistant", <<"welcome-fallback">>, FALSE, NoSources, l.ctx)>>
    /\ asLoading' = FALSE

\* lines 236-247
LoadToken(l) ==
    /\ BagIn(l, loads) /\ l.pc = "token"
    /\ \/ /\ loads' = (loads (-) One(l)) (+) One([l EXCEPT !.pc = "fetch"])
          /\ fx' = <<Fx("GET /api/assistant/history", l.ctx)>>
          /\ last' = Step("loadChatHistory", "issued", l.ctx, Null, 0)
          /\ UNCHANGED <<messages, asLoading, asError>>
       \/ /\ loads' = loads (-) One(l)
          /\ loadChatHistory_catch(l)
          /\ fx' = <<>>
          /\ last' = Step("loadChatHistory", "exception", l.ctx, Null, 0)
    /\ UNCHANGED <<asSelected, inputMessage, isTyping, chats>>

\* lines 249-283
LoadDone(l) ==
    /\ BagIn(l, loads) /\ l.pc = "fetch"
    /\ loads' = loads (-) One(l)
    /\ fx' = <<>>
    /\ \/ \E status \in Statuses, h \in HistLists :
          /\ ResponseOk(status)
          /\ messages' =
                IF Len(h) > 0 THEN formattedMessages(h, l.ctx)
                ELSE <<Msg("assistant",
                           IF l.ctx # Null THEN <<"welcome-project", l.ctx>>
                           ELSE <<"welcome-general">>,
                           FALSE, NoSources, l.ctx)>>
          /\ asLoading' = FALSE
          /\ UNCHANGED asError
          /\ last' = Step("loadChatHistory", "ok", l.ctx, Null, status)
       \/ \E status \in Statuses \cup {0} :     \* 0: fetch or json rejected
          /\ ~ResponseOk(status)
          /\ loadChatHistory_catch(l)
          /\ last' = Step("loadChatHistory", "failed", l.ctx, Null, status)
    /\ UNCHANGED <<asSelected, inputMessage, isTyping, chats>>

appendTurn_replace(prev, m) == <<m>>

\* lines 297, 334 and 347: setMessages(prev => [...prev, m])
appendTurn(prev, m) == Append(prev, m)

SendGuard_noTyping(msg, typing) == msg # <<>>

\* line 288, negated: the send is accepted
SendGuard(msg, typing) == msg # <<>> /\ ~typing

\* line 287
messageToSend(custom) == IF custom # <<>> THEN custom ELSE Trim(inputMessage)

\* handleSendMessage up to `await getIdToken()`, lines 286-303; called by
\* the Send button, the Enter key (custom = <<>>) or a predefined prompt
SendMessage(custom) ==
    /\ Len(messages) + 2 <= MaxMsgs
    /\ BagCardinality(chats) < MaxChats
    /\ last' = Step("sendCall", IF SendGuard(messageToSend(custom), isTyping)
                                THEN "accepted" ELSE "ignored", asSelected,
                    IF custom = <<>> THEN "typed" ELSE "prompt", 0)
    /\ fx' = <<>>
    /\ IF SendGuard(messageToSend(custom), isTyping)
       THEN /\ messages' = appendTurn(messages,
                    Msg("user", messageToSend(custom), FALSE, NoSources, asSelected))
            /\ inputMessage' = <<>>
            /\ isTyping' = TRUE
            /\ asError' = Null
            /\ chats' = chats (+) One(ChatRec("token", asSelected, messageToSend(custom)))
            /\ UNCHANGED <<asSelected, asLoading, loads>>
       ELSE UNCHANGED asVars

errorMessage_plain(msg, ctx) ==
    Msg("assistant", <<"Sorry, I encountered an error: ", msg, ". Please try again.">>,
        FALSE, NoSources, ctx)

\* lines 340-346
errorMessage(msg, ctx) ==
    Msg("assistant", <<"Sorry, I encountered an error: ", msg, ". Please try again.">>,
        TRUE, NoSources, ctx)

\* the catch block and finally, lines 335-350
handleSendMessage_catch(c, msg) ==
    /\ asError' = msg
    /\ messages' = appendTurn(messages, errorMessage(msg, c.ctx))
    /\ isTyping' = FALSE

\* lines 303-317
ChatToken(c) ==
    /\ BagIn(c, chats) /\ c.pc = "token"
    /\ \/ /\ chats' = (chats (-) One(c)) (+) One([c EXCEPT !.pc = "fetch"])
          /\ fx' = <<Fx("POST /api/assistant/chat", c.ctx)>>
          /\ last' = Step("handleSendMessage", "issued", c.ctx, Null, 0)
          /\ UNCHANGED <<messages, isTyping, asError>>
       \/ /\ chats' = chats (-) One(c)
          /\ handleSendMessage_catch(c, "Failed to fetch")
          /\ fx' = <<>>
          /\ last' = Step("handleSendMessage", "exception", c.ctx, Null, 0)
    /\ UNCHANGED <<asSelected, inputMessage, asLoading, loads>>

\* data.sources of a chat response: absent, empty or one excerpt
SourceReplies == {NoSources, SomeSources(<<>>), SomeSources(<<"s1">>)}

\* line 331: data.sources || []
sourcesOrEmpty(src) == IF src.present THEN SomeSources(src.list) ELSE SomeSources(<<>>)

\* lines 319-350
ChatDone(c) ==
    /\ BagIn(c, chats) /\ c.pc = "fetch"
    /\ chats' = chats (-) One(c)
    /\ fx' = <<>>
    /\ \/ \E status \in Statuses, src \in SourceReplies :
          /\ ResponseOk(status)
          /\ messages' = appendTurn(messages,
                 Msg("assistant", <<"response">>, FALSE, sourcesOrEmpty(src), c.ctx))
          /\ isTyping' = FALSE
          /\ UNCHANGED asError
          /\ last' = StepIn("handleSendMessage", "ok", c.ctx, Null, status, src)
       \/ \E status \in Statuses, detail \in {"", "detail"} :
          /\ ~ResponseOk(status)
          /\ handleSendMessage_catch(c, ErrMsg(detail, "Failed to get response"))
          /\ last' = StepIn("handleSendMessage", "failed", c.ctx, Null, status, detail)
       \/ /\ handleSendMessage_catch(c, "Failed to fetch")   \* fetch / json rejects
          /\ last' = Step("handleSendMessage", "exception", c.ctx, Null, 0)
    /\ UNCHANGED <<asSelected, inputMessage, asLoading, loads>>

\* ---- clearChatHistory, lines 357-390 ---------------------------------
\* in-flight clears: the continuation handed to showConfirm closes over the
\* selectedProject of the render in which "Clear History" was clicked
VARIABLES clears

clVars == <<clears>>

MaxClears == 1

ClearRec(pc, ctx) == [pc |-> pc, ctx |-> ctx]

InitClear == clears = EmptyBag

clearUrl_general(ctx) == [path |-> "/api/assistant/clear-history", project_id |-> Undefined]

\* lines 363-366
clearUrl(ctx) ==
    [path |-> "/api/assistant/clear-history",
     project_id |-> IF ctx # Null THEN ctx ELSE Undefined]

\* lines 357-360: showConfirm parks the continuation
ClearClick ==
    /\ BagCardinality(clears) < MaxClears
    /\ clears' = clears (+) One(ClearRec("confirm", asSelected))
    /\ fx' = <<Fx("showConfirm", asSelected)>>
    /\ last' = Step("clearClick", Null, asSelected, Null, 0)
    /\ UNCHANGED asVars

\* the dialog is dismissed: the continuation is never invoked
ClearDismiss(c) ==
    /\ BagIn(c, clears) /\ c.pc = "confirm"
    /\ clears' = clears (-) One(c)
    /\ fx' = <<>>
    /\ last' = Step("clearDismiss", Null, c.ctx, Null, 0)
    /\ UNCHANGED asVars

\* the user confirms: lines 361-362 run up to `await getIdToken()`
ClearConfirm(c) ==
    /\ BagIn(c, clears) /\ c.pc = "confirm"
    /\ clears' = (clears (-) One(c)) (+) One([c EXCEPT !.pc = "token"])
    /\ fx' = <<>>
    /\ last' = Step("clearConfirm", Null, c.ctx, Null, 0)
    /\ UNCHANGED asVars

\* the catch block, lines 384-387
clearChatHistory_catch ==
    /\ asError' = "Failed to clear chat history"
    /\ UNCHANGED <<asSelected, messages, inputMessage, isTyping, asLoading,
                   chats, loads>>

\* lines 362-373
ClearToken(c) ==
    /\ BagIn(c, clears) /\ c.pc = "token"
    /\ \/ /\ clears' = (clears (-) One(c)) (+) One([c EXCEPT !.pc = "fetch"])
          /\ fx' = <<Fx("POST clear-history", clearUrl(c.ctx))>>
          /\ last' = Step("clearChatHistory", "issued", c.ctx, Null, 0)
          /\ UNCHANGED asVars
       \/ /\ clears' = clears (-) One(c)            \* getIdToken rejects
          /\ clearChatHistory_catch
          /\ fx' = <<>>
          /\ last' = Step("clearChatHistory", "exception", c.ctx, Null, 0)

\* lines 375-387: response.ok, or !response.ok / fetch rejected
ClearDone(c) ==
    /\ BagIn(c, clears) /\ c.pc = "fetch"
    /\ clears' = clears (-) One(c)
    /\ fx' = <<>>
    /\ \/ /\ messages' = <<Msg("assistant",
                              <<"Chat history cleared! How can I help you?">>,
                              FALSE, NoSources, c.ctx)>>
          /\ last' = Step("clearChatHistory", "ok", c.ctx, Null, 0)
          /\ UNCHANGED <<asSelected, inputMessage, isTyping, asLoading, asError,
                         chats, loads>>
       \/ /\ clearChatHistory_catch
          /\ last' = Step("clearChatHistory", "failed", c.ctx, Null, 0)

NextClear ==
    \/ ClearClick
    \/ \E c \in BagToSet(clears) : ClearDismiss(c)
    \/ \E c \in BagToSet(clears) : ClearConfirm(c)
    \/ \E c \in BagToSet(clears) : ClearToken(c)
    \/ \E c \in BagToSet(clears) : ClearDone(c)

NextAssistant ==
    \/ \E text \in TypedInputs : TypeInput(text)
    \/ \E p \in AsProjects \cup {Null} : SwitchProject(p)
    \/ \E l \in BagToSet(loads) : LoadToken(l)
    \/ \E l \in BagToSet(loads) : LoadDone(l)
    \/ \E custom \in {<<>>} \cup PREDEFINED_PROMPTS : SendMessage(custom)
    \/ \E c \in BagToSet(chats) : ChatToken(c)
    \/ \E c \in BagToSet(chats) : ChatDone(c)

\* the clear button next to the project selector and the history loads
NextClearing ==
    \/ NextClear
    \/ /\ \/ \E p \in AsProjects \cup {Null} : SwitchProject(p)
          \/ \E l \in BagToSet(loads) : LoadToken(l)
          \/ \E l \in BagToSet(loads) : LoadDone(l)
       /\ UNCHANGED clVars

\* everything that writes the message list of one conversation: the load on
\* mount, the sends (the prompts stand for every message sent) and the clear
NextHistory ==
    \/ NextClear
    \/ /\ \/ \E l \in BagToSet(loads) : LoadToken(l)
          \/ \E l \in BagToSet(loads) : LoadDone(l)
          \/ \E custom \in PREDEFINED_PROMPTS : SendMessage(custom)
          \/ \E c \in BagToSet(chats) : ChatToken(c)
          \/ \E c \in BagToSet(chats) : ChatDone(c)
       /\ UNCHANGED clVars

\* ======================================================== AddProjectModal
VARIABLES formData, mLoading, mError, mOpen, submits

mVars == <<formData, mLoading, mError, mOpen, submits>>

MaxSubmits == 2

EmptyForm == [teamName |-> <<>>, description |-> <<>>, memberEmails |-> <<>>]

\* values typed into the three inputs
FieldInputs ==
    [teamName |-> {<<>>, <<" ">>, <<" ", "a">>},
     description |-> {<<>>, <<"d", " ">>},
     memberEmails |-> {<<>>, <<"x", ",", " ", ",", "y">>}]

\* String.prototype.split(',')
RECURSIVE SplitComma(_, _)
SplitComma(s, cur) ==
    IF s = <<>> THEN <<cur>>
    ELSE IF Head(s) = "," THEN <<cur>> \o SplitComma(Tail(s), <<>>)
    ELSE SplitComma(Tail(s), Append(cur, Head(s)))

RECURSIVE TrimNonEmpty(_)
TrimNonEmpty(parts) ==
    IF parts = <<>> THEN <<>>
    ELSE (IF Len(Trim(Head(parts))) > 0 THEN <<Trim(Head(parts))>> ELSE <<>>)
         \o TrimNonEmpty(Tail(parts))

\* lines 37-40
memberEmails(s) == TrimNonEmpty(SplitComma(s, <<>>))

\* lines 42-46
projectData(fd) ==
    [teamName |-> Trim(fd.teamName), description |-> Trim(fd.description),
     member_emails |-> memberEmails(fd.memberEmails)]

SubmitRec(pc, fd) == [pc |-> pc, fd |-> fd]

InitModal ==
    /\ formData = EmptyForm
    /\ mLoading = FALSE
    /\ mError = Null
    /\ mOpen = FALSE
    /\ submits = EmptyBag

\* the parent shows the modal (onCreateProject, sidebar line 233)
OpenModal ==
    /\ ~mOpen
    /\ mOpen' = TRUE
    /\ fx' = <<>>
    /\ last' = Step("openModal", Null, Null, Null, 0)
    /\ UNCHANGED <<formData, mLoading, mError, submits>>

\* handleInputChange, lines 16-22; the inputs are disabled while loading
InputChange(name, value) ==
    /\ mOpen /\ ~mLoading
    /\ formData[name] # value
    /\ formData' = [formData EXCEPT ![name] = value]
    /\ fx' = <<>>
    /\ last' = Step("inputChange", Null, name, Null, 0)
    /\ UNCHANGED <<mLoading, mError, mOpen, submits>>

NameMissing_untrimmed(fd) == fd.teamName = <<>>

\* line 26: !formData.teamName.trim()
NameMissing(fd) == Trim(fd.teamName) = <<>>

\* handleSubmit up to `await getIdToken()`, lines 24-34.  via = "button":
\* the submit button (disabled by line 221); via = "form": a submit event
\* dispatched on the form itself
Submit(via) ==
    /\ mOpen
    /\ via = "button" => ~mLoading /\ Trim(formData.teamName) # <<>>
    /\ BagCardinality(submits) < MaxSubmits
    /\ IF NameMissing(formData)
       THEN /\ mError' = "Project name is required"
            /\ fx' = <<>>
            /\ last' = Step("submitCall", "invalid", Null, via, 0)
            /\ UNCHANGED <<formData, mLoading, mOpen, submits>>
       ELSE /\ mLoading' = TRUE
            /\ mError' = Null
            /\ submits' = submits (+) One(SubmitRec("token", formData))
            /\ fx' = <<Fx("getIdToken", Null)>>
            /\ last' = Step("submitCall", "accepted", Null, via, 0)
            /\ UNCHANGED <<formData, mOpen>>

\* the catch block without the fallback, lines 109-111
handleSubmit_error(msg) ==
    /\ mError' = ErrMsg(msg, "Failed to create project")
    /\ mLoading' = FALSE
    /\ fx' = <<>>
    /\ UNCHANGED <<formData, mOpen>>

\* line 80
IsNetworkFailure(msg) == msg \in {"Failed to fetch", "NetworkError"}

\* messages of the TypeError a rejected fetch() carries: Chromium, Gecko
\* ("NetworkError when attempting to fetch resource."), WebKit
NetworkRejections == {"Failed to fetch", "NetworkError", "Load failed"}

\* lines 81-95
mockProject(fd) ==
    [teamId |-> "mock-now", teamName |-> Trim(fd.teamName),
     description |-> Trim(fd.description),
     members |-> <<Member("mock-user", "admin")>>]

\* the catch block, lines 76-112; formData is the value the submit closed over
handleSubmit_catch(sub, msg) ==
    IF IsNetworkFailure(msg)
    THEN /\ formData' = EmptyForm
         /\ fx' = <<Fx("onProjectCreated", mockProject(sub.fd)), Fx("onClose", Null)>>
         /\ mOpen' = FALSE
         /\ mLoading' = FALSE
         /\ UNCHANGED mError
    ELSE handleSubmit_error(msg)

\* lines 34-58
SubmitToken(sub) ==
    /\ BagIn(sub, submits) /\ sub.pc = "token"
    /\ \/ /\ submits' = (submits (-) One(sub)) (+) One([sub EXCEPT !.pc = "fetch"])
          /\ fx' = <<Fx("POST /teams/", projectData(sub.fd))>>
          /\ last' = Step("handleSubmit", "issued", Null, Null, 0)
          /\ UNCHANGED <<formData, mLoading, mError, mOpen>>
       \/ \E m \in {"", "token error", "Failed to fetch"} :  \* getIdToken rejects
          /\ submits' = submits (-) One(sub)
          /\ handleSubmit_catch(sub, m)
          /\ last' = Step("handleSubmit", "exception", Null, m, 0)

\* lines 60-112
SubmitDone(sub) ==
    /\ BagIn(sub, submits) /\ sub.pc = "fetch"
    /\ submits' = submits (-) One(sub)
    /\ \/ \E status \in Statuses :
          /\ ResponseOk(status)
          /\ formData' = EmptyForm
          /\ fx' = <<Fx("onProjectCreated", projectData(sub.fd)), Fx("onClose", Null)>>
          /\ mOpen' = FALSE
          /\ mLoading' = FALSE
          /\ UNCHANGED mError
          /\ last' = StepIn("handleSubmit", "ok", Null, Null, status, sub.fd)
       \/ \E status \in Statuses,
             detail \in {"", "Team exists", "Failed to fetch"} :
          /\ ~ResponseOk(status)
          /\ handleSubmit_catch(sub, ErrMsg(detail, "Failed to create project"))
          /\ last' = StepIn("handleSubmit", "failed", Null, detail, status, sub.fd)
       \/ \E m \in NetworkRejections :         \* fetch rejects
          /\ handleSubmit_catch(sub, m)
          /\ last' = StepIn("handleSubmit", "network", Null, m, 0, sub.fd)
       \/ /\ handleSubmit_catch(sub, "Unexpected token")   \* json rejects
          /\ last' = StepIn("handleSubmit", "exception", Null, "Unexpected token", 0, sub.fd)

\* handleClose, lines 115-125
HandleClose ==
    /\ mOpen /\ ~mLoading
    /\ formData' = EmptyForm
    /\ mError' = Null
    /\ mOpen' = FALSE
    /\ fx' = <<Fx("onClose", Null)>>
    /\ last' = Step("handleClose", Null, Null, Null, 0)
    /\ UNCHANGED <<mLoading, submits>>

NextModal ==
    \/ OpenModal
    \/ \E name \in DOMAIN FieldInputs : \E value \in FieldInputs[name] :
          InputChange(name, value)
    \/ \E via \in {"button", "form"} : Submit(via)
    \/ \E sub \in BagToSet(submits) : SubmitToken(sub)
    \/ \E sub \in BagToSet(submits) : SubmitDone(sub)
    \/ HandleClose

\* ========================================================= AddMemberModal
\* AddProjectModal.jsx lines 247-345, rendered by ProjectSidebar (lines
\* 430-434) with isOpen = showAddMemberModal and teamId = selectedTeamId
VARIABLES amOpen, amTeamId, amEmail, amLoading, amSubmits

amVars == <<amOpen, amTeamId, amEmail, amLoading, amSubmits>>

MaxAmSubmits == 1

EmailInputs == {<<" ">>, <<"a">>}

AmRec(pc, email, teamId, live) ==
    [pc |-> pc, email |-> email, teamId |-> teamId, live |-> live]

InitMember ==
    /\ amOpen = FALSE
    /\ amTeamId = Null
    /\ amEmail = <<>>
    /\ amLoading = FALSE
    /\ amSubmits = EmptyBag

\* ProjectSidebar.openAddMemberModal, lines 196-200
openAddMemberModal(pid) ==
    /\ ~loading
    /\ \E i \in DOMAIN projects :
          projects[i].teamId = pid /\ ActionsShown(projects[i], user)
    /\ amTeamId' = pid
    /\ amOpen' = TRUE
    /\ fx' = <<>>
    /\ last' = Step("openAddMember", Null, pid, Null, 0)
    /\ UNCHANGED <<amEmail, amLoading, amSubmits>>

\* the email input's onChange, line 312
AmInput(text) ==
    /\ ~loading /\ amOpen
    /\ amEmail' = text
    /\ fx' = <<>>
    /\ last' = Step("memberInput", Null, Null, Null, 0)
    /\ UNCHANGED <<amOpen, amTeamId, amLoading, amSubmits>>

\* handleSubmit up to `await getIdToken()`, lines 259-265; the submit
\* button is disabled while loading (line 328)
AmSubmit ==
    /\ ~loading /\ amOpen /\ ~amLoading
    /\ BagCardinality(amSubmits) < MaxAmSubmits
    /\ fx' = <<>>
    /\ IF Trim(amEmail) = <<>>
       THEN /\ last' = StepIn("memberSubmit", "return", amTeamId, Null, 0, amEmail)
            /\ UNCHANGED amVars
       ELSE /\ amLoading' = TRUE
            /\ amSubmits' = amSubmits (+) One(AmRec("token", amEmail, amTeamId, TRUE))
            /\ last' = StepIn("memberSubmit", "started", amTeamId, Null, 0, amEmail)
            /\ UNCHANGED <<amOpen, amTeamId, amEmail>>

\* catch and finally, lines 285-290; the setters of an unmounted instance
\* do nothing
AmSubmit_catch(sub, msg) ==
    /\ amSubmits' = amSubmits (-) One(sub)
    /\ fx' = <<Fx("showError", ErrMsg(msg, "Failed to send invite"))>>
    /\ amLoading' = IF sub.live THEN FALSE ELSE amLoading
    /\ UNCHANGED <<amOpen, amTeamId, amEmail>>

\* lines 265-276
AmToken(sub) ==
    /\ BagIn(sub, amSubmits) /\ sub.pc = "token"
    /\ \/ /\ amSubmits' = (amSubmits (-) One(sub)) (+) One([sub EXCEPT !.pc = "fetch"])
          /\ fx' = <<Fx("POST /teams/invite", [teamId |-> sub.teamId, email |-> sub.email])>>
          /\ last' = StepIn("memberSubmit", "issued", sub.teamId, Null, 0, sub.email)
          /\ UNCHANGED <<amOpen, amTeamId, amEmail, amLoading>>
       \/ /\ AmSubmit_catch(sub, "")                \* getIdToken rejects
          /\ last' = StepIn("memberSubmit", "exception", sub.teamId, Null, 0, sub.email)

\* lines 278-290
AmDone(sub) ==
    /\ BagIn(sub, amSubmits) /\ sub.pc = "fetch"
    /\ \/ /\ amSubmits' = amSubmits (-) One(sub)       \* response.ok
          /\ fx' = <<Fx("showSuccess", "Invitation sent successfully!"),
                     Fx("onClose", Null)>>
          /\ amEmail' = IF sub.live THEN <<>> ELSE amEmail
          /\ amOpen' = FALSE
          /\ amLoading' = IF sub.live THEN FALSE ELSE amLoading
          /\ last' = StepIn("memberSubmit", "ok", sub.teamId, Null, 0, sub.email)
          /\ UNCHANGED amTeamId
       \/ \E detail \in {"", "Already a member"} :   \* !response.ok
          /\ AmSubmit_catch(sub, detail)
          /\ last' = StepIn("memberSubmit", "failed", sub.teamId, detail, 0, sub.email)
       \/ /\ AmSubmit_catch(sub, "Failed to fetch")  \* fetch rejects
          /\ last' = StepIn("memberSubmit", "failed", sub.teamId, "Failed to fetch", 0, sub.email)

\* the close and cancel buttons, lines 297 and 321: onClose
AmClose ==
    /\ ~loading /\ amOpen
    /\ amOpen' = FALSE
    /\ fx' = <<Fx("onClose", Null)>>
    /\ last' = Step("memberClose", Null, Null, Null, 0)
    /\ UNCHANGED <<amTeamId, amEmail, amLoading, amSubmits>>

\* the modal leaves the tree when the sidebar shows its loader (lines
\* 207-213) and is mounted afresh, with fresh state, afterwards
AmUnmount ==
    /\ amEmail' = <<>>
    /\ amLoading' = FALSE
    /\ amSubmits' = Detach(amSubmits)
    /\ UNCHANGED <<amOpen, amTeamId>>

AmFollows == IF loading' /\ ~loading THEN AmUnmount ELSE UNCHANGED amVars

NextMember ==
    \/ \E pid \in {"t1", "t2", "mock-1", "mock-2"} : openAddMemberModal(pid)
    \/ \E text \in EmailInputs : AmInput(text)
    \/ AmSubmit
    \/ \E sub \in BagToSet(amSubmits) : AmToken(sub)
    \/ \E sub \in BagToSet(amSubmits) : AmDone(sub)
    \/ AmClose

\* both panels are viewport-covering overlays (`fixed inset-0 ... z-50`,
\* InviteNotifications.jsx line 75, AddProjectModal.jsx line 295): while
\* one is shown the pointer reaches neither the row buttons nor the bell
Covered == showNotifications \/ amOpen

\* the sidebar with everything that changes team membership: delete, the
\* invite panel and the add-member modal, driven by the pointer; a panel
\* stays up until its own handler closes it
NextMutations ==
    \/ /\ \/ FetchToken
          \/ FetchDone
          \/ ~Covered /\ \E pid \in {"t1", "t2", "mock-1", "mock-2"} : DeleteClick(pid)
          \/ \E d \in BagToSet(deletes) : DeleteConfirm(d)
          \/ \E d \in BagToSet(deletes) : DeleteToken(d)
          \/ \E d \in BagToSet(deletes) : DeleteDone(d)
          \/ ~Covered /\ OpenNotifications
          \/ \E f \in BagToSet(invFetches) : InvFetchToken(f)
          \/ \E f \in BagToSet(invFetches) : InvFetchDone(f)
          \/ \E id \in {"i1", "i2"}, act \in {"accept", "reject"} : HandleInvite(id, act)
          \/ \E o \in BagToSet(invOps) : InvOpToken(o)
          \/ \E o \in BagToSet(invOps) : InvOpDone(o)
       /\ AmFollows
    \/ /\ \/ ~Covered /\ \E pid \in {"t1", "t2", "mock-1", "mock-2"} : openAddMemberModal(pid)
          \/ \E text \in EmailInputs : AmInput(text)
          \/ AmSubmit
          \/ \E sub \in BagToSet(amSubmits) : AmToken(sub)
          \/ \E sub \in BagToSet(amSubmits) : AmDone(sub)
       /\ UNCHANGED <<sbVars, invVars>>

\* the sidebar's rows with the add-member modal alone
NextRows ==
    \/ (FetchToken \/ FetchDone \/ RefreshTrigger) /\ AmFollows
    \/ NextMember /\ UNCHANGED <<sbVars, invVars>>

\* ==================================================== formatMessageText
\* InviteNotifications.jsx lines 167-210.  A text is a sequence of
\* one-character strings; NL is the line feed, Bullet stands for U+2022.
VARIABLES fmText, fmOut, fmDone

fmVars == <<fmText, fmOut, fmDone>>

MaxPieces == 3

NL == "\n"
Bullet == "bullet"
Digits == {"0", "1", "2", "3", "4", "5", "6", "7", "8", "9"}

\* the /i flag on ASCII letters
LowerOf ==
    ("A" :> "a") @@
    ("B" :> "b") @@
    ("C" :> "c") @@
    ("D" :> "d") @@
    ("E" :> "e") @@
    ("F" :> "f") @@
    ("G" :> "g") @@
    ("H" :> "h") @@
    ("I" :> "i") @@
    ("J" :> "j") @@
    ("K" :> "k") @@
    ("L" :> "l") @@
    ("M" :> "m") @@
    ("N" :> "n") @@
    ("O" :> "o") @@
    ("P" :> "p") @@
    ("Q" :> "q") @@
    ("R" :> "r") @@
    ("S" :> "s") @@
    ("T" :> "t") @@
    ("U" :> "u") @@
    ("V" :> "v") @@
    ("W" :> "w") @@
    ("X" :> "x") @@
    ("Y" :> "y") @@
    ("Z" :> "z")

Lower(s) == [i \in DOMAIN s |-> IF s[i] \in DOMAIN LowerOf THEN LowerOf[s[i]] ELSE s[i]]

StartsWith(s, p) == Len(s) >= Len(p) /\ SubSeq(s, 1, Len(p)) = p

\* the alternation of lines 180 and 185
SUBHEADINGS ==
    {<<"s", "u", "m", "m", "a", "r", "y">>,
     <<"i", "m", "p", "o", "r", "t", "a", "n", "t", " ", "p", "o", "i", "n", "t", "s">>,
     <<"k", "e", "y", " ", "p", "o", "i", "n", "t", "s">>,
     <<"m", "a", "i", "n", " ", "t", "o", "p", "i", "c", "s">>,
     <<"a", "n", "s", "w", "e", "r">>,
     <<"s", "o", "l", "u", "t", "i", "o", "n">>,
     <<"s", "t", "e", "p", "s">>,
     <<"r", "e", "c", "o", "m", "m", "e", "n", "d", "a", "t", "i", "o", "n", "s">>}

NotStar(c) == c # "*"

\* line 171: text.replace(/\*/g, '')
stripAsterisks(text) == SelectSeq(text, NotStar)

\* line 174: formattedText.split('\n')
RECURSIVE splitLines(_)
splitLines(t) ==
    IF \A i \in DOMAIN t : t[i] # NL THEN <<t>>
    ELSE LET k == CHOOSE i \in DOMAIN t :
                      t[i] = NL /\ \A j \in 1..(i - 1) : t[j] # NL
         IN <<SubSeq(t, 1, k - 1)>> \o splitLines(SubSeq(t, k + 1, Len(t)))

\* line 180: /^(summary|...|recommendations):?\s*$/i.test(trimmedLine)
isBareSubheading(line) ==
    \E w \in SUBHEADINGS :
        \/ Lower(TrimRight(line)) = w
        \/ Lower(TrimRight(line)) = w \o <<":">>
        \/ /\ StartsWith(Lower(line), w \o <<":">>)
           /\ TrimLeft(SubSeq(line, Len(w) + 2, Len(line))) = <<>>

\* line 185: trimmedLine.replace(/^(summary|...|recommendations):\s*/i, '')
removePrefix(line) ==
    IF \E w \in SUBHEADINGS : StartsWith(Lower(line), w \o <<":">>)
    THEN LET w == CHOOSE v \in SUBHEADINGS : StartsWith(Lower(line), v \o <<":">>)
         IN TrimLeft(SubSeq(line, Len(w) + 2, Len(line)))
    ELSE line

isHeading_numbered(line) ==
    \E k \in 1..(Len(line) - 2) :
        /\ \A i \in 1..k : line[i] \in Digits
        /\ line[k + 1] \in {".", ")"}
        /\ line[k + 2] = " "

\* lines 188-190
isHeading(line) ==
    \/ \E k \in 1..(Len(line) - 2) :               \* /^\d+[\.\)]\s/
          /\ \A i \in 1..k : line[i] \in Digits
          /\ line[k + 1] \in {".", ")"}
          /\ line[k + 2] = " "
    \/ /\ Len(line) >= 2                           \* /^[-\u2022]\s/
       /\ line[1] \in {"-", Bullet}
       /\ line[2] = " "
    \/ /\ line # <<>>                              \* /^[A-Z][^:]{2,30}:\s*$/
       /\ line[1] \in DOMAIN LowerOf
       /\ \E n \in 2..30 :
             /\ Len(line) >= n + 2
             /\ \A i \in 2..(n + 1) : line[i] # ":"
             /\ line[n + 2] = ":"
             /\ \A i \in (n + 3)..Len(line) : line[i] = " "

\* what one line maps to, lines 176-208: null, <br>, bold <p> or plain <p>
Element(kind, text) == [kind |-> kind, text |-> text]

formatLine(line) ==
    LET trimmedLine == Trim(line)
        rest == removePrefix(trimmedLine)
    IN IF isBareSubheading(trimmedLine) THEN Element("null", <<>>)
       ELSE IF rest = <<>> THEN Element("br", <<>>)
       ELSE IF isHeading(rest) THEN Element("heading", rest)
       ELSE Element("plain", rest)

\* lines 167-210; a falsy text gives null
formatMessageText(text) ==
    IF text = <<>> THEN [isNull |-> TRUE, lines |-> <<>>]
    ELSE LET lines == splitLines(stripAsterisks(text))
         IN [isNull |-> FALSE,
             lines |-> [i \in DOMAIN lines |-> formatLine(lines[i])]]

\* the texts rendered: the sample of the documentation and every
\* concatenation of at most MaxPieces pieces
SampleText ==
    <<"*", "*", "S", "u", "m", "m", "a", "r", "y", ":", "*", "*", "\n", "1", ".", " ", "P", "o", "i", "n", "t", " ", "o", "n", "e", "\n", "-", " ", "P", "o", "i", "n", "t", " ", "t", "w", "o", "\n", "P", "l", "a", "i", "n", " ", "t", "e", "x", "t">>

Pieces ==
    {<<"S", "u", "m", "m", "a", "r", "y">>,
     <<"a", "n", "s", "w", "e", "r">>,
     <<":">>,
     <<" ">>,
     <<"\n">>,
     <<"*">>,
     <<"1", ".">>,
     <<"2", ")">>,
     <<"-">>,
     <<"T", "i", "t", "l", "e">>,
     <<"A", "b">>,
     <<"x">>}

RECURSIVE Concats(_)
Concats(n) ==
    IF n = 0 THEN {<<>>}
    ELSE Concats(n - 1) \cup {t \o q : t \in Concats(n - 1), q \in Pieces}

Texts == Concats(MaxPieces) \cup {SampleText}

NotRendered == [isNull |-> TRUE, lines |-> <<>>]

InitFormat ==
    /\ fmText \in Texts
    /\ fmOut = NotRendered
    /\ fmDone = FALSE

\* a message bubble renders formatMessageText(message.content), line 510
Render ==
    /\ ~fmDone
    /\ fmDone' = TRUE
    /\ fmOut' = formatMessageText(fmText)
    /\ fx' = <<>>
    /\ last' = Step("formatMessageText", Null, Null, Null, 0)
    /\ UNCHANGED fmText

NextFormat == Render

\* ================================================================= parent
\* what the component that renders ProjectSidebar was last handed through
\* its onProjectsLoaded prop (part_000 lines 102-104 and 113-115)
VARIABLES reported

pVars == <<reported>>

NotReported == [called |-> FALSE, list |-> <<>>]

\* joined to every step: the calls of the step are in fx
onProjectsLoaded ==
    reported' = IF HasFx("onProjectsLoaded")'
                THEN [called |-> TRUE,
                      list |-> fx'[CHOOSE i \in DOMAIN fx' :
                                      fx'[i].e = "onProjectsLoaded"].arg]
                ELSE reported

\* ========================================================= specifications
vars == <<last, fx, sbVars, invVars, asVars, clVars, mVars, amVars, fmVars, pVars>>

\* nothing is being rendered
Init ==
    /\ last = NoStep
    /\ fx = <<>>
    /\ InitSidebar
    /\ InitAssistant
    /\ InitClear
    /\ InitMember
    /\ InitModal
    /\ reported = NotReported
    /\ fmText = <<>>
    /\ fmOut = NotRendered
    /\ fmDone = FALSE

\* each component runs against its own collaborators; the other components
\* stay in their initial state
SpecSidebar == Init /\ [][NextSidebar /\ onProjectsLoaded /\ UNCHANGED <<asVars, clVars, mVars, amVars, fmVars>>]_vars
SpecInvites == Init /\ [][NextInvites /\ onProjectsLoaded /\ UNCHANGED <<asVars, clVars, mVars, amVars, fmVars>>]_vars
SpecAssistant == Init /\ [][NextAssistant /\ onProjectsLoaded /\ UNCHANGED <<sbVars, invVars, clVars, mVars, amVars, fmVars>>]_vars
\* the two handlers that go through showConfirm, side by side
NextConfirm ==
    \/ /\ \/ FetchToken
          \/ FetchDone
          \/ \E pid \in {"t1", "t2", "mock-1", "mock-2"} : DeleteClick(pid)
          \/ \E d \in BagToSet(deletes) : DeleteDismiss(d)
          \/ \E d \in BagToSet(deletes) : DeleteConfirm(d)
          \/ \E d \in BagToSet(deletes) : DeleteToken(d)
          \/ \E d \in BagToSet(deletes) : DeleteDone(d)
       /\ UNCHANGED <<asVars, clVars>>
    \/ NextClear /\ UNCHANGED <<sbVars, invVars>>

SpecConfirm == Init /\ [][NextConfirm /\ onProjectsLoaded /\ UNCHANGED <<mVars, amVars, fmVars>>]_vars
SpecRows == Init /\ [][NextRows /\ onProjectsLoaded /\ UNCHANGED <<asVars, clVars, mVars, fmVars>>]_vars
SpecMutations == Init /\ [][NextMutations /\ onProjectsLoaded /\ UNCHANGED <<asVars, clVars, mVars, fmVars>>]_vars
SpecClearing == Init /\ [][NextClearing /\ onProjectsLoaded /\ UNCHANGED <<sbVars, invVars, mVars, amVars, fmVars>>]_vars
SpecHistory == Init /\ [][NextHistory /\ onProjectsLoaded /\ UNCHANGED <<sbVars, invVars, mVars, amVars, fmVars>>]_vars
\* a message is about to be rendered
InitRender ==
    /\ last = NoStep
    /\ fx = <<>>
    /\ InitSidebar
    /\ InitAssistant
    /\ InitClear
    /\ InitMember
    /\ InitModal
    /\ reported = NotReported
    /\ InitFormat

SpecFormat ==
    /\ InitRender
    /\ [][NextFormat /\ onProjectsLoaded /\ UNCHANGED <<sbVars, invVars, asVars, clVars, mVars, amVars>>]_vars
SpecModal == Init /\ [][NextModal /\ onProjectsLoaded /\ UNCHANGED <<sbVars, invVars, asVars, clVars, amVars, fmVars>>]_vars

\* the three components that show a busy flag while a request of theirs is
\* out: the project list, the assistant and the create-project modal (the
\* pointer path: the submit button, line 221).  They share no state, so
\* each one runs while the other two still are as they were constructed.
NextRequests ==
    \/ /\ InitAssistant /\ InitModal
       /\ RefreshTrigger \/ RetryClick \/ FetchToken \/ FetchDone
       /\ UNCHANGED <<asVars, mVars>>
    \/ /\ InitSidebar /\ InitModal
       /\ NextAssistant
       /\ UNCHANGED <<sbVars, invVars, mVars>>
    \/ /\ InitSidebar /\ InitAssistant
       /\ \/ OpenModal
          \/ \E name \in DOMAIN FieldInputs : \E value \in FieldInputs[name] :
                InputChange(name, value)
          \/ Submit("button")
          \/ \E sub \in BagToSet(submits) : SubmitToken(sub)
          \/ \E sub \in BagToSet(submits) : SubmitDone(sub)
          \/ HandleClose
       /\ UNCHANGED <<sbVars, invVars, asVars>>

SpecRequests == Init /\ [][NextRequests /\ onProjectsLoaded /\ UNCHANGED <<clVars, amVars, fmVars>>]_vars

\* ================================================================= claims

\* the step that produced the current state completed a project-list fetch
\* by failing: missing token, a rejection, or a non-ok status other than 404
FetchFailedStep ==
    /\ last.op = "fetchProjects"
    /\ \/ last.out \in {"noToken", "exception"}
       \/ last.out = "status" /\ last.status # 404

HasAdminMember(project, uid) ==
    \E j \in DOMAIN project.members :
        project.members[j].user_id = uid /\ project.members[j].role = "admin"

\* C1: a project-list fetch that fails (no token, exception, or a non-ok
\* status other than 404) leaves offlineMode true and the project list equal
\* to the two demo projects mock-1, mock-2, each with the signed-in user as
\* an admin member.
C1_FailedFetchGoesOffline ==
    FetchFailedStep =>
        /\ offlineMode
        /\ Len(projects) = 2
        /\ projects[1].teamId = "mock-1"
        /\ projects[2].teamId = "mock-2"
        /\ user # Null =>
              \A i \in DOMAIN projects : HasAdminMember(projects[i], user)

C1_Witness ==
    /\ last.op = "fetchProjects" /\ last.out = "status" /\ last.status = 500
    /\ user = "u1"
    /\ offlineMode
    /\ Len(projects) = 2

\* C2: right after a project-list fetch resolves with status 404 the project
\* list is empty and offlineMode is false, whatever fetches came before or
\* overlap it.
C2_NotFoundIsEmptyOnline ==
    (last.op = "fetchProjects" /\ last.out = "status" /\ last.status = 404) =>
        (projects = <<>> /\ ~offlineMode)

\* C3: after a confirmed DELETE of project P has succeeded, the selection is
\* not P (onProjectSelect(null) was invoked if P was selected).
C3_DeletedProjectNotSelected ==
    (last.op = "delete" /\ last.out = "ok") => selectedProject # last.id

\* C4: onInviteHandled is invoked exactly once by the completion of an accept
\* whose POST succeeded (starting a project-list fetch), and by no other
\* step: not by a reject, not by an accept whose POST failed.
C4_RefreshOnlyOnAccept ==
    /\ CountFx("onInviteHandled") =
          IF last.op = "handleInvite" /\ last.out = "ok" /\ last.act = "accept"
          THEN 1 ELSE 0
    /\ HasFx("onInviteHandled") => (loading /\ BagIn("token", fetches))

C4_Witness ==
    /\ last.op = "handleInvite" /\ last.out = "ok" /\ last.act = "accept"
    /\ CountFx("onInviteHandled") = 1

\* a turn taken from a fetched history or appended by a send, as opposed to
\* a greeting synthesized by loadChatHistory
IsLoadedOrAppended(m) ==
    m.content[1] \notin {"welcome-fallback", "welcome-general", "welcome-project",
                         "Chat history cleared! How can I help you?"}

\* C5: once the selected project has changed, no message loaded or appended
\* under another context is in the displayed message list.
C5_MessagesBelongToSelection ==
    ~asLoading =>
        \A i \in DOMAIN messages :
            IsLoadedOrAppended(messages[i]) => messages[i].ctx = asSelected

\* C6: at most one chat request is outstanding at any time, and a send
\* attempted while one is outstanding adds no request and appends no turn.
C6_SingleOutstandingSend ==
    /\ [](BagCardinality(chats) <= 1)
    /\ [][(last'.op = "sendCall" /\ chats # EmptyBag) =>
             (messages' = messages /\ chats' = chats /\ fx' = <<>>)]_vars

C6_Witness ==
    /\ last.op = "sendCall" /\ last.act = "prompt" /\ last.out = "ignored"
    /\ BagCardinality(chats) = 1

IsAppendOf(new, old) == Len(new) = Len(old) + 1 /\ SubSeq(new, 1, Len(old)) = old

\* C7: an accepted send appends the user turn before any request goes out; a
\* failed request keeps every earlier turn and appends exactly one assistant
\* turn flagged isError; a successful one appends exactly one non-error
\* assistant turn with the response text and the returned sources (the empty
\* list when none were returned).
C7_SendAppendsTurns ==
    [][/\ (last'.op = "sendCall" /\ last'.out = "accepted") =>
            /\ IsAppendOf(messages', messages)
            /\ messages'[Len(messages')].role = "user"
            /\ messages'[Len(messages')].content # <<>>
            /\ fx' = <<>>
            /\ \A c \in BagToSet(chats') : c.pc = "fetch" => BagIn(c, chats)
       /\ (last'.op = "handleSendMessage" /\ last'.out \in {"failed", "exception"}) =>
            /\ IsAppendOf(messages', messages)
            /\ messages'[Len(messages')].role = "assistant"
            /\ messages'[Len(messages')].isError
       /\ (last'.op = "handleSendMessage" /\ last'.out = "ok") =>
            /\ IsAppendOf(messages', messages)
            /\ messages'[Len(messages')].role = "assistant"
            /\ ~messages'[Len(messages')].isError
            /\ messages'[Len(messages')].content = <<"response">>
            /\ messages'[Len(messages')].sources.present
            /\ messages'[Len(messages')].sources.list =
                  (IF last'.inp.present THEN last'.inp.list ELSE <<>>)
      ]_vars

C7_Witness ==
    /\ last.op = "handleSendMessage" /\ last.out = "failed"
    /\ Len(messages) >= 2
    /\ messages[Len(messages)].isError
    /\ messages[Len(messages) - 1].role = "user"

\* C8: every GET /teams/invites/my is issued while the panel is open.
C8_InviteFetchOnlyWhileOpen ==
    HasFx("GET /teams/invites/my") => showNotifications

\* C9: when the accept/reject POST fails, showError is called once and
\* nothing else happens: invites and loading keep their values, no invite
\* fetch is started and onInviteHandled is not called.
C9_FailedInviteLeavesState ==
    [][(last'.op = "handleInvite" /\ last'.out \in {"failed", "exception"}) =>
          /\ Len(fx') = 1 /\ fx'[1].e = "showError"
          /\ invites' = invites
          /\ invLoading' = invLoading
          /\ invFetches' = invFetches
          /\ fetches' = fetches /\ loading' = loading
      ]_vars

C9_Witness ==
    /\ last.op = "handleInvite" /\ last.out = "failed"
    /\ invites # <<>>
    /\ HasFx("showError")

IsBlank(str) == \A i \in DOMAIN str : str[i] = " "

\* C10: a submit with an empty or whitespace-only project name looks up no
\* token and issues no request, sets the error "Project name is required",
\* and leaves the form data, the loading flag and the open state unchanged.
C10_BlankNameRejected ==
    [][(last'.op = "submitCall" /\ IsBlank(formData.teamName)) =>
          /\ fx' = <<>>
          /\ submits' = submits
          /\ mError' = "Project name is required"
          /\ formData' = formData
          /\ mLoading' = mLoading
          /\ mOpen' = mOpen
      ]_vars

C10_Witness ==
    /\ last.op = "submitCall" /\ last.out = "invalid"
    /\ formData.teamName = <<" ">>
    /\ mError = "Project name is required"
    /\ submits = EmptyBag

\* C11: when POST /teams/ fails at the network level the submit ends as a
\* visual success: onProjectCreated is called once with a synthesized project
\* carrying the submitted trimmed name and description, then onClose; the
\* form is reset, no error message is set and loading ends false.
C11_NetworkFailureFallsBack ==
    [][(last'.op = "handleSubmit" /\ last'.out = "network") =>
          /\ Len(fx') = 2
          /\ fx'[1].e = "onProjectCreated"
          /\ fx'[1].arg.teamName = Trim(last'.inp.teamName)
          /\ fx'[1].arg.description = Trim(last'.inp.description)
          /\ fx'[2].e = "onClose"
          /\ formData' = EmptyForm
          /\ ~mOpen'
          /\ mError' = mError
          /\ ~mLoading'
      ]_vars

C13_DestructiveNeedsConfirm ==
    [][/\ \A d \in BagToSet(deletes') :
            (d.pc = "token" /\ CopiesIn(d, deletes') > CopiesIn(d, deletes)) =>
               /\ last'.op = "deleteConfirm"
               /\ BagIn([d EXCEPT !.pc = "confirm"], deletes)
       /\ \A c \in BagToSet(clears') :
            (c.pc = "token" /\ CopiesIn(c, clears') > CopiesIn(c, clears)) =>
               /\ last'.op = "clearConfirm"
               /\ BagIn([c EXCEPT !.pc = "confirm"], clears)
       /\ HasFx("DELETE /teams/")' =>
            \E d \in BagToSet(deletes) : d.pc = "token" /\ d.pid = fx'[1].arg
       /\ HasFx("POST clear-history")' =>
            \E c \in BagToSet(clears) : c.pc = "token"
       /\ last'.op \in {"deleteDismiss", "clearDismiss"} =>
            /\ fx' = <<>>
            /\ UNCHANGED <<user, projects, loading, error, offlineMode,
                           showNotifications, selectedProject, fetches>>
            /\ UNCHANGED <<invVars, asVars>>
            /\ BagCardinality(deletes') + BagCardinality(clears')
                  < BagCardinality(deletes) + BagCardinality(clears)
      ]_vars

C13_Witness ==
    /\ last.op = "clearChatHistory" /\ last.out = "issued"
    /\ \E d \in BagToSet(deletes) : d.pc = "fetch"

C15_NoOptimisticUpdate ==
    [][/\ projects' # projects =>
            (last'.op = "fetchProjects" /\ last'.out # "issued")
       /\ (last'.op = "delete" /\ last'.out = "ok") =>
            /\ projects' = projects
            /\ fetches' = fetches (+) One("token")
            /\ HasFx("fetchProjects")'
       /\ (last'.op = "handleInvite" /\ last'.out = "ok" /\ last'.act = "accept") =>
            /\ projects' = projects
            /\ fetches' = fetches (+) One("token")
            /\ HasFx("onInviteHandled")'
       /\ last'.op = "memberSubmit" =>
            /\ projects' = projects
            /\ fetches' = fetches
      ]_vars

C15_Witness ==
    /\ last.op = "delete" /\ last.out = "ok"
    /\ Len(projects) = 2
    /\ BagIn("token", fetches)

C15_WitnessAccept ==
    /\ last.op = "handleInvite" /\ last.out = "ok" /\ last.act = "accept"
    /\ BagIn("token", fetches)

C15_WitnessMember ==
    /\ last.op = "memberSubmit" /\ last.out = "ok"
    /\ Len(projects) = 2

\* the elements that put a line on the screen
Shown(out) == SelectSeq(out.lines, LAMBDA e : e.kind \in {"heading", "plain"})

\* C16: the four-line sample "**Summary:**", "1. Point one", "- Point two",
\* "Plain text" renders without any asterisk, emits nothing for the Summary
\* line, and shows exactly three lines in order: heading "1. Point one",
\* heading "- Point two", plain "Plain text".
C16_SampleRendering ==
    (fmDone /\ fmText = SampleText) =>
        /\ ~fmOut.isNull
        /\ Len(fmOut.lines) = 4
        /\ fmOut.lines[1].kind = "null"
        /\ \A i \in DOMAIN fmOut.lines :
              \A j \in DOMAIN fmOut.lines[i].text : fmOut.lines[i].text[j] # "*"
        /\ [i \in 2..4 |-> fmOut.lines[i]] =
              [i \in 2..4 |->
                 CASE i = 2 -> Element("heading", <<"1", ".", " ", "P", "o", "i", "n", "t", " ", "o", "n", "e">>)
                   [] i = 3 -> Element("heading", <<"-", " ", "P", "o", "i", "n", "t", " ", "t", "w", "o">>)
                   [] i = 4 -> Element("plain", <<"P", "l", "a", "i", "n", " ", "t", "e", "x", "t">>)]

C16_Witness ==
    /\ fmDone /\ fmText = SampleText
    /\ Len(Shown(fmOut)) = 3

\* a line that is nothing but a boilerplate subheading, an optional colon
\* after it, compared without case after trimming
IsSubheadingLine(text) ==
    \E w \in SUBHEADINGS : Lower(Trim(text)) \in {w, w \o <<":">>}

\* C17: for every text, no line put on the screen is a recognised
\* boilerplate subheading.
C17_NoSubheadingRendered ==
    fmDone => \A i \in DOMAIN fmOut.lines :
                 fmOut.lines[i].kind \in {"heading", "plain"} =>
                    ~IsSubheadingLine(fmOut.lines[i].text)

\* C18: for a signed-in user the delete and add-member actions of a row are
\* offered exactly when the user is in the project's members list with role
\* admin, the demo projects of offline mode included.
C18_ActionsFollowRole ==
    (~loading /\ user # Null) =>
        \A i \in DOMAIN projects :
            ActionsShown(projects[i], user) <=> HasAdminMember(projects[i], user)

\* C19: the message list is append-only between resets.  Every step that
\* changes it either completes a history load, or is a successful clear, or
\* appends exactly one turn and keeps the earlier turns as they were.
C19_AppendOnlyBetweenResets ==
    [][messages' # messages =>
          \/ last'.op = "loadChatHistory" /\ last'.out # "issued"
          \/ last'.op = "clearChatHistory" /\ last'.out = "ok"
          \/ /\ last'.op \in {"sendCall", "handleSendMessage"}
             /\ IsAppendOf(messages', messages)
      ]_vars

C19_Witness ==
    /\ last.op = "handleSendMessage" /\ last.out = "ok"
    /\ Len(messages) = 3
    /\ messages[1].content = <<"Chat history cleared! How can I help you?">>
    /\ messages[2].role = "user"

\* C20: a submit of AddProjectModal closes the modal only after its POST
\* succeeded or after the network-failure fallback; a successful submit calls
\* onProjectCreated exactly once, with the created record, and then onClose;
\* a submit whose POST was answered with a non-2xx status leaves the modal
\* open, keeps the entered values and shows the inline error.
C20_SubmitClosesOnlyOnSuccess ==
    [][/\ (last'.op = "handleSubmit" /\ HasFx("onClose")') =>
            last'.out \in {"ok", "network", "exception"}
       /\ (last'.op = "handleSubmit" /\ last'.out = "ok") =>
            /\ Len(fx') = 2
            /\ fx'[1].e = "onProjectCreated"
            /\ fx'[1].arg.teamName = Trim(last'.inp.teamName)
            /\ fx'[2].e = "onClose"
       /\ (last'.op = "handleSubmit" /\ last'.out = "failed") =>
            /\ fx' = <<>>
            /\ mOpen' = mOpen
            /\ formData' = formData
            /\ mError' # Null
      ]_vars

\* a fetchProjects call has just ended and none is left in flight
FetchesSettled ==
    /\ last.op = "fetchProjects" /\ last.out # "issued"
    /\ fetches = EmptyBag

IsDemoList(l) == Len(l) = 2 /\ l[1].teamId = "mock-1" /\ l[2].teamId = "mock-2"

\* C21: last write wins.  When the last of the fetchProjects calls in flight
\* has ended, the project list, the offlineMode flag and the error message
\* are what that last response alone produces: the returned list online
\* without error for a 2xx, the empty list online without error for a 404,
\* the demo list in offline mode with an error otherwise.
C21_LastResponseWins ==
    FetchesSettled =>
        IF last.out = "ok"
        THEN /\ projects = (IF last.inp.isArray THEN last.inp.value ELSE <<>>)
             /\ ~offlineMode /\ error = Null
        ELSE IF last.out = "status" /\ last.status = 404
        THEN projects = <<>> /\ ~offlineMode /\ error = Null
        ELSE IsDemoList(projects) /\ offlineMode /\ error # Null

\* the invites the panel shows: none while the sidebar renders its loader,
\* while the panel is closed or while the panel says "Loading..."
DisplayedInvites ==
    IF ~loading /\ showNotifications /\ ~invLoading
    THEN {invites[i] : i \in DOMAIN invites} ELSE {}

\* C22: a successful accept or reject of invite I calls fetchInvites, and
\* when that refetch has been answered with a list that no longer holds I,
\* I is not in the displayed invites list.
C22_HandledInviteDisappears ==
    /\ (last.op = "handleInvite" /\ last.out = "ok") =>
          \E f \in BagToSet(invFetches) : f.pc = "token" /\ f.after = last.id
    /\ (/\ last.op = "fetchInvites" /\ last.out = "ok" /\ last.id # Null
        /\ \A i \in DOMAIN last.inp : last.inp[i] # last.id) =>
          last.id \notin DisplayedInvites

\* a step that ends a call of one of the three request handlers
Resolved(op) == last.op = op /\ last.out # "issued"

\* C23: no timeout and no retry.  While a request of a component is out its
\* busy flag is set (sidebar loading, assistant isTyping, modal loading) and
\* no further send or submit is accepted; the step that resolves the
\* request, whatever the outcome, clears the flag; and a resolving step
\* never puts a new request in flight.
C23_BusyUntilResolved ==
    [][/\ fetches' # EmptyBag => loading'
       /\ chats' # EmptyBag => isTyping'
       /\ submits' # EmptyBag => mLoading'
       /\ (isTyping /\ last'.op = "sendCall") =>
             last'.out = "ignored" /\ chats' = chats
       /\ mLoading => last'.op # "submitCall"
       /\ Resolved("fetchProjects")' =>
             ~loading' /\ BagCardinality(fetches') < BagCardinality(fetches)
       /\ Resolved("handleSendMessage")' =>
             ~isTyping' /\ BagCardinality(chats') < BagCardinality(chats)
       /\ Resolved("handleSubmit")' =>
             ~mLoading' /\ BagCardinality(submits') < BagCardinality(submits)
      ]_vars

\* C24: whenever no project fetch is in flight, the demo-mode banner is up
\* exactly when the list on screen is the built-in demo list.
C24_BannerIffDemoList ==
    fetches = EmptyBag => (offlineMode <=> IsDemoList(projects))

\* C25: the loader is up in every state in which a project fetch is out.
C25_LoadingWhileInFlight ==
    fetches # EmptyBag => loading

\* C26: right after a project-list fetch has completed, with whatever
\* outcome, the list last handed to onProjectsLoaded is the sidebar's own
\* project list.
C26_ParentAgrees ==
    (Resolved("fetchProjects") /\ reported.called) => reported.list = projects

\* C27: context isolation.  The turn (reply or error) a chat request ends
\* with is appended to the list of the project that was selected when the
\* request was sent: at that moment the same project is still selected and
\* the last turn of the list is the user turn sent under it.
C27_TurnStaysInItsContext ==
    [][(last'.op = "handleSendMessage" /\ last'.out # "issued") =>
          /\ asSelected' = last'.id
          /\ messages # <<>>
          /\ messages[Len(messages)].role = "user"
          /\ messages[Len(messages)].ctx = last'.id
          /\ messages'[Len(messages')].ctx = last'.id
      ]_vars

\* the step handed the parent a synthesized project (lines 81-108)
FallbackTaken ==
    \E i \in DOMAIN fx :
        /\ fx[i].e = "onProjectCreated"
        /\ "teamId" \in DOMAIN fx[i].arg
        /\ fx[i].arg.teamId = "mock-now"

\* C28: the mock-project fallback is taken only when no response arrived;
\* a POST /teams/ answered with a non-2xx status, whatever its detail text,
\* never reaches onProjectCreated, leaves the modal open and sets the error
\* message (the detail, or the default text when there is none).
C28_FallbackOnlyWithoutResponse ==
    [][last'.op = "handleSubmit" =>
          /\ FallbackTaken' => last'.out \in {"network", "exception"}
          /\ last'.out = "failed" =>
                /\ ~HasFx("onProjectCreated")'
                /\ ~HasFx("onClose")' /\ mOpen' = mOpen
                /\ mError' = ErrMsg(last'.act, "Failed to create project")
      ]_vars

====
